---- MODULE Spec2Model ----
(***************************************************************************)
(* Model of the workflow-command logger of FollowTheProcess/actions        *)
(* (package log): the annotation options Title/File/Lines/Span, the        *)
(* annotation template, the two escapers and Logger.Notice/Warning/Error.  *)
(*                                                                         *)
(* A Go string is modelled as a sequence of one-character strings, so      *)
(* that escaping and rendering are computed character by character.        *)
(***************************************************************************)
EXTENDS Naturals, Sequences, FiniteSets, TLC

VARIABLES
    opts,   \* the Annotation values the caller has constructed (closures with their captured variables)
    out,    \* the content of the logger's io.Writer
    last,   \* the arguments and local variables of the log call that has run
    pc,     \* "build": the caller is constructing annotations; "logged": the call has returned
    tt,     \* the row of the test table being run (TestAnnotations), or NoCase
    environ, \* the environment of the process: the value of every name, or Unset
    files,  \* the file system: the content at every path, or NoFile, or NoDir
    ret,    \* the arguments and the result of the call of package actions that has returned
    ncalls, \* the number of calls of package actions made
    grp,    \* the WithGroup calls whose fn is running, innermost last, and the calls made on the logger
    gor     \* the goroutines that are inside AddPath: their position and local variables

vars == <<opts, out, last, pc, tt, environ, files, ret, ncalls, grp, gor>>

\* the state of the logger, and the state of the process around it
lvars == <<opts, out, last, pc, tt, grp>>
fvars == <<environ, files, ret, ncalls, gor>>

-----------------------------------------------------------------------------
(* Bounds *)

MaxAnns == 3      \* most annotation options passed to one call
MaxLine == 2      \* largest line number passed to Lines
MaxCol == 2       \* largest column number passed to Span
MaxStrLen == 3    \* longest message drawn when the escapers are exercised
MaxCalls == 2     \* most calls of SetEnv, SetOutput, AddPath and Summary in one run

-----------------------------------------------------------------------------
(* Characters and strings *)

CR == "\r"
LF == "\n"

Chars == {"a", "%", CR, LF, ":", ",", "2", "5", "0", "A", "D"}

\* the strings of n characters
StrsOfLen(n) == [1..n -> Chars]

AllStrs == UNION {StrsOfLen(n) : n \in 0..MaxStrLen}

\* a title or file name with a plain character and every character the
\* property escaper rewrites
Nasty == <<"a", "%", ":", ",", CR, LF>>

Texts == {<<>>, Nasty}

Msgs == {<<>>, <<"a", ":", ",", "%", LF>>}

Digit == <<"0", "1", "2", "3", "4", "5", "6", "7", "8", "9">>

\* {{ .StartLine }}: a uint printed in decimal
RECURSIVE Dec(_)
Dec(n) == IF n < 10 THEN <<Digit[n + 1]>> ELSE Dec(n \div 10) \o <<Digit[(n % 10) + 1]>>

-----------------------------------------------------------------------------
(* Escapers: strings.NewReplacer over single-byte old strings replaces     *)
(* every byte by its entry in one pass                                     *)

RECURSIVE byteReplace(_, _)
byteReplace(tab, s) ==
    IF s = <<>> THEN <<>>
    ELSE (IF Head(s) \in DOMAIN tab THEN tab[Head(s)] ELSE <<Head(s)>>)
         \o byteReplace(tab, Tail(s))

messageTable == ("%" :> <<"%","2","5">>) @@ (CR :> <<"%","0","D">>) @@ (LF :> <<"%","0","A">>)

propertyTable ==
    ("%" :> <<"%","2","5">>) @@ (CR :> <<"%","0","D">>) @@ (LF :> <<"%","0","A">>)
    @@ (":" :> <<"%","3","A">>) @@ ("," :> <<"%","2","C">>)

\* mutant: the replacer without its "\r" pair
messageEscaper_noCR(s) ==
    byteReplace(("%" :> <<"%","2","5">>) @@ (LF :> <<"%","0","A">>), s)

\* mutant: the replacer without its "%" pair
messageEscaper_noPercent(s) ==
    byteReplace((CR :> <<"%","0","D">>) @@ (LF :> <<"%","0","A">>), s)

messageEscaper(s) == byteReplace(messageTable, s)

\* mutant: the property replacer without its "\n" pair
propertyEscaper_noLF(s) ==
    byteReplace([c \in DOMAIN propertyTable \ {LF} |-> propertyTable[c]], s)

\* mutant: properties escaped with the narrow table of messages
propertyEscaper_asMessage(s) == byteReplace(messageTable, s)

propertyEscaper(s) == byteReplace(propertyTable, s)

-----------------------------------------------------------------------------
(* Annotations *)

ZeroAnn ==
    [Title |-> <<>>, File |-> <<>>, StartLine |-> 0, EndLine |-> 0,
     StartColumn |-> 0, EndColumn |-> 0]

\* Title(title): the closure captures title
Title(title) == [kind |-> "Title", text |-> title, start |-> 0, end |-> 0]

\* File(file): the closure captures file
File(file) == [kind |-> "File", text |-> file, start |-> 0, end |-> 0]

\* mutant: Lines without the end < start rule
Lines_endNotRaised(start, end) ==
    [kind |-> "Lines", text |-> <<>>,
     start |-> IF start < 1 THEN 1 ELSE start,
     end |-> IF end < 1 THEN 1 ELSE end]

\* Lines(start, end): the clamping runs at construction, the closure captures
\* the clamped start and end
Lines(start, end) ==
    LET s1 == IF start < 1 THEN 1 ELSE start
        e1 == IF end < 1 THEN 1 ELSE end
        e2 == IF e1 < s1 THEN s1 ELSE e1
    IN  [kind |-> "Lines", text |-> <<>>, start |-> s1, end |-> e2]

\* mutant: Span that zeroes start and end one by one and raises end to start
Span_coerced(start, end) ==
    LET s1 == IF start < 1 THEN 0 ELSE start
        e1 == IF end < 1 THEN 0 ELSE end
    IN  [kind |-> "Span", text |-> <<>>, start |-> s1, end |-> IF e1 < s1 THEN s1 ELSE e1]

\* Span(start, end): a bogus range is zeroed at construction
Span(start, end) ==
    LET bogus == start < 1 \/ end < 1 \/ end < start
    IN  [kind |-> "Span", text |-> <<>>,
         start |-> IF bogus THEN 0 ELSE start,
         end |-> IF bogus THEN 0 ELSE end]

\* annotator.apply: runs the closure c on the annotation ann; the closures of
\* Lines and Span assign to their captured start and end, so the closure
\* changes too
apply(c, ann) ==
    CASE c.kind = "Title" -> [ann |-> [ann EXCEPT !.Title = c.text], c |-> c]
      [] c.kind = "File" -> [ann |-> [ann EXCEPT !.File = c.text], c |-> c]
      [] c.kind = "Lines" ->
            LET drop == ann.File = <<>>
                s == IF drop THEN 0 ELSE c.start
                e == IF drop THEN 0 ELSE c.end
            IN  [ann |-> [ann EXCEPT !.StartLine = s, !.EndLine = e],
                 c |-> [c EXCEPT !.start = s, !.end = e]]
      [] c.kind = "Span" ->
            LET drop == ann.File = <<>> \/ ann.StartLine # ann.EndLine
                s == IF drop THEN 0 ELSE c.start
                e == IF drop THEN 0 ELSE c.end
            IN  [ann |-> [ann EXCEPT !.StartColumn = s, !.EndColumn = e],
                 c |-> [c EXCEPT !.start = s, !.end = e]]

\* for _, annotation := range annotations { annotation.apply(&ann) }
RECURSIVE applyAll(_, _)
applyAll(annotations, ann) ==
    IF annotations = <<>> THEN [ann |-> ann, cs |-> <<>>]
    ELSE LET r == apply(Head(annotations), ann)
             rest == applyAll(Tail(annotations), r.ann)
         IN  [ann |-> rest.ann, cs |-> <<r.c>> \o rest.cs]

Comma(cond) == IF cond THEN <<",">> ELSE <<>>

\* mutant: a template that renders the file before the title
annotationTemplate_fileFirst(ann) ==
    (IF ann.File # <<>>
        THEN <<"f","i","l","e","=">> \o propertyEscaper(ann.File) ELSE <<>>)
    \o (IF ann.Title # <<>>
        THEN Comma(ann.File # <<>>) \o <<"t","i","t","l","e","=">> \o propertyEscaper(ann.Title)
        ELSE <<>>)
    \o (IF ann.StartLine # 0
        THEN Comma(ann.File # <<>>) \o <<"l","i","n","e","=">> \o Dec(ann.StartLine)
        ELSE <<>>)
    \o (IF ann.EndLine # 0
        THEN Comma(ann.StartLine # 0) \o <<"e","n","d","L","i","n","e","=">> \o Dec(ann.EndLine)
        ELSE <<>>)
    \o (IF ann.StartColumn # 0
        THEN Comma(ann.EndLine # 0) \o <<"c","o","l","=">> \o Dec(ann.StartColumn)
        ELSE <<>>)
    \o (IF ann.EndColumn # 0
        THEN Comma(ann.StartColumn # 0)
             \o <<"e","n","d","C","o","l","u","m","n","=">> \o Dec(ann.EndColumn)
        ELSE <<>>)

\* the annotation template, executed on ann (ann.String())
annotationTemplate(ann) ==
    (IF ann.Title # <<>>
        THEN <<"t","i","t","l","e","=">> \o propertyEscaper(ann.Title) ELSE <<>>)
    \o (IF ann.File # <<>>
        THEN Comma(ann.Title # <<>>) \o <<"f","i","l","e","=">> \o propertyEscaper(ann.File)
        ELSE <<>>)
    \o (IF ann.StartLine # 0
        THEN Comma(ann.File # <<>>) \o <<"l","i","n","e","=">> \o Dec(ann.StartLine)
        ELSE <<>>)
    \o (IF ann.EndLine # 0
        THEN Comma(ann.StartLine # 0) \o <<"e","n","d","L","i","n","e","=">> \o Dec(ann.EndLine)
        ELSE <<>>)
    \o (IF ann.StartColumn # 0
        THEN Comma(ann.EndLine # 0) \o <<"c","o","l","=">> \o Dec(ann.StartColumn)
        ELSE <<>>)
    \o (IF ann.EndColumn # 0
        THEN Comma(ann.StartColumn # 0)
             \o <<"e","n","d","C","o","l","u","m","n","=">> \o Dec(ann.EndColumn)
        ELSE <<>>)

-----------------------------------------------------------------------------
(* Logger *)

NoCall ==
    [cmd |-> <<>>, message |-> <<>>, args |-> <<>>, ann |-> ZeroAnn,
     annotation |-> <<>>, wrote |-> <<>>]

\* no WithGroup is running and nothing has been called on the logger
NoGroups == [stack |-> <<>>, calls |-> <<>>, panicked |-> FALSE]

NoCase == [title |-> <<>>, file |-> <<>>, ls |-> 0, le |-> 0, cs |-> 0, ce |-> 0]

\* mutant: log that writes the annotated form whenever annotations were
\* passed, without the fallback on an empty rendering
logMessage_noFallback(cmd, message, annotations) ==
    LET msg == messageEscaper(message)
    IN  IF Len(annotations) = 0
        THEN [wrote |-> <<":", ":">> \o cmd \o <<":", ":">> \o msg \o <<LF>>,
              ann |-> ZeroAnn, annotation |-> <<>>, cs |-> annotations]
        ELSE LET r == applyAll(annotations, ZeroAnn)
                 annotation == annotationTemplate(r.ann)
             IN  [wrote |-> <<":", ":">> \o cmd \o <<" ">> \o annotation
                            \o <<":", ":">> \o msg \o <<LF>>,
                  ann |-> r.ann, annotation |-> annotation, cs |-> r.cs]

\* Logger.log after the check of the empty message: what it writes, the
\* annotation it accumulated, its rendering, and the closures after the call
logMessage(cmd, message, annotations) ==
    LET msg == messageEscaper(message)
        plain == <<":", ":">> \o cmd \o <<":", ":">> \o msg \o <<LF>>
    IN  IF Len(annotations) = 0
        THEN [wrote |-> plain, ann |-> ZeroAnn, annotation |-> <<>>, cs |-> annotations]
        ELSE LET r == applyAll(annotations, ZeroAnn)
                 annotation == annotationTemplate(r.ann)
             IN  IF Len(annotation) = 0
                 THEN [wrote |-> plain, ann |-> r.ann, annotation |-> annotation, cs |-> r.cs]
                 ELSE [wrote |-> <<":", ":">> \o cmd \o <<" ">> \o annotation
                                 \o <<":", ":">> \o msg \o <<LF>>,
                       ann |-> r.ann, annotation |-> annotation, cs |-> r.cs]

\* mutant: log without the early return on the empty message
log_noEmptyCheck(cmd, message, annotations) == logMessage(cmd, message, annotations)

\* Logger.log: wrote is empty when it returns early
log(cmd, message, annotations) ==
    IF message = <<>>
    THEN [wrote |-> <<>>, ann |-> ZeroAnn, annotation |-> <<>>, cs |-> annotations]
    ELSE logMessage(cmd, message, annotations)

-----------------------------------------------------------------------------
(* Package actions: the process environment and the protocol files         *)

TAB == "\t"
NUL == "NUL"     \* the byte 0

\* the variables that name the protocol files, and the real $PATH
envFile == <<"G","I","T","H","U","B","_","E","N","V">>
outFile == <<"G","I","T","H","U","B","_","O","U","T","P","U","T">>
summaryFile == <<"G","I","T","H","U","B","_","S","T","E","P","_","S","U","M","M","A","R","Y">>
pathFile == <<"G","I","T","H","U","B","_","P","A","T","H">>
realPath == <<"P","A","T","H">>

PathListSeparator == ":"

\* an error value; nil is no error
nil == <<"nil">>

\* a variable that is not in the environment, a path with no file, a path
\* whose directory does not exist
Unset == <<"unset">>
NoFile == <<"no file">>
NoDir == <<"no directory">>

\* the keys, values, paths and summaries the caller passes
Keys ==
    {<<>>, <<" ","K">>, <<"C","I">>, <<"N","O","D","E","_","O","P","T","I","O","N","S">>, <<"G","I","T","H","U","B","_","X">>, <<"R","U","N","N","E","R","_","X">>, <<"A","=","B">>}

Values == {<<" ">>, <<"v",TAB>>, <<"x",LF,"y">>}

PathArgs == {<<" ">>, <<" ","p">>, <<"r">>, <<"q", NUL>>}

Summaries == {<<>>, <<"#">>, <<"#"," ","s",LF>>}

\* the files of the runner
EnvPath == <<"/","e">>
OutPath == <<"/","o">>
PathPath == <<"/","p">>
SumPath == <<"/","s">>
MissingPath == <<"/","m">>
NewPath == <<"/","n">>
FullPath == <<"/","f">>     \* a file on a device with no space left
NoDirPath == <<"/","d","/","f">>

Paths == {EnvPath, OutPath, PathPath, SumPath, MissingPath, NewPath, NoDirPath, FullPath}

White == {" ", TAB, LF, CR}

\* mutant: no trimming
TrimSpace_none(s) == s

\* strings.TrimSpace
TrimSpace(s) ==
    LET keep == {i \in 1..Len(s) : s[i] \notin White}
    IN  IF keep = {} THEN <<>>
        ELSE SubSeq(s, CHOOSE i \in keep : \A j \in keep : i <= j,
                       CHOOSE i \in keep : \A j \in keep : j <= i)

\* strings.HasPrefix
HasPrefix(s, prefix) == Len(prefix) <= Len(s) /\ SubSeq(s, 1, Len(prefix)) = prefix

\* strings.Contains(s, "\n")
ContainsLF(s) == \E i \in 1..Len(s) : s[i] = LF

\* the names the environment can hold
EnvNames ==
    {envFile, outFile, summaryFile, pathFile, realPath, <<"S","O","M","E","T","H","I","N","G">>}
        \cup {TrimSpace(k) : k \in Keys}

\* os.Getenv
Getenv(name) ==
    IF name \in DOMAIN environ /\ environ[name] # Unset THEN environ[name] ELSE <<>>

\* os.Setenv fails with EINVAL on an empty key, on '=' or the byte 0 in the
\* key and on the byte 0 in the value
SetenvInvalid(key, value) ==
    \/ key = <<>>
    \/ \E i \in 1..Len(key) : key[i] \in {"=", NUL}
    \/ \E i \in 1..Len(value) : value[i] = NUL

EINVAL == <<"s","e","t","e","n","v",":"," ","i","n","v","a","l","i","d"," ","a","r","g","u","m","e","n","t">>

ENOENT(path) == <<"o","p","e","n"," ">> \o path \o <<":"," ","n","o"," ","s","u","c","h"," ","f","i","l","e"," ","o","r"," ","d","i","r","e","c","t","o","r","y">>

IsFile(fsys, path) == path \in DOMAIN fsys /\ fsys[path] \notin {NoFile, NoDir}

\* mutant: OpenFile with os.O_CREATE
OpenFile_create(fsys, path) ==
    IF IsFile(fsys, path) THEN [err |-> nil, files |-> fsys]
    ELSE IF path \in DOMAIN fsys /\ fsys[path] = NoFile
         THEN [err |-> nil, files |-> [fsys EXCEPT ![path] = <<>>]]
         ELSE [err |-> ENOENT(path), files |-> fsys]

\* os.OpenFile(path, os.O_APPEND|os.O_WRONLY, filePermissions): the error
\* and the files after the call
OpenFile(fsys, path) ==
    IF IsFile(fsys, path) THEN [err |-> nil, files |-> fsys]
    ELSE [err |-> ENOENT(path), files |-> fsys]

ENOSPC(path) == <<"w","r","i","t","e"," ">> \o path \o <<":"," ","n","o"," ","s","p","a","c","e"," ","l","e","f","t"," ","o","n"," ","d","e","v","i","c","e">>

\* mutant: WriteFile that opens with os.O_APPEND instead of os.O_TRUNC
WriteFile_append(fsys, path, contents) ==
    IF path \in DOMAIN fsys /\ fsys[path] # NoDir
    THEN [err |-> nil,
          files |-> [fsys EXCEPT ![path] = (IF @ = NoFile THEN <<>> ELSE @) \o contents]]
    ELSE [err |-> ENOENT(path), files |-> fsys]

\* os.WriteFile(path, contents, filePermissions): the file is created or
\* truncated, then written; on a device with no space the write fails
WriteFile(fsys, path, contents) ==
    IF path \in DOMAIN fsys /\ fsys[path] # NoDir
    THEN IF path = FullPath /\ contents # <<>>
         THEN [err |-> ENOSPC(path), files |-> [fsys EXCEPT ![path] = <<>>]]
         ELSE [err |-> nil, files |-> [fsys EXCEPT ![path] = contents]]
    ELSE [err |-> ENOENT(path), files |-> fsys]

\* fmt.Fprintf(file, ...) on the open file at path, text being the formatted
\* string: the error it returns and the files after it; on a device with no
\* space nothing is appended
Fprintf(fsys, path, text) ==
    IF path = FullPath
    THEN [err |-> ENOSPC(path), files |-> fsys]
    ELSE [err |-> nil, files |-> [fsys EXCEPT ![path] = @ \o text]]

charset ==
    <<"a","b","c","d","e","f","g","h","i","j","k","l","m","n","o","p","q","r","s","t","u","v","w","x","y","z","A","B","C","D","E","F","G","H","I","J","K","L","M","N","O","P","Q","R","S","T","U","V","W","X","Y","Z","0","1","2","3","4","5","6","7","8","9">>

size == 16

\* the outcomes of the size calls of rand.IntN(len(charset)) in one call of
\* randString: the i-th draw is i strides on
RandStrides == {0, 7}

RandDraws == {[i \in 1..size |-> (i * stride) % Len(charset)] : stride \in RandStrides}

\* mutant: a string that does not depend on the draws
randString_fixed(draws) == [i \in 1..size |-> charset[1]]

\* randString, for the given outcomes of rand.IntN
randString(draws) == [i \in 1..size |-> charset[draws[i] + 1]]

\* mutant: the reserved keys rejected for every target
disallowed_anyTarget(name, key) ==
    \/ key = <<"C","I">>
    \/ key = <<"N","O","D","E","_","O","P","T","I","O","N","S">>
    \/ HasPrefix(key, <<"G","I","T","H","U","B","_">>)
    \/ HasPrefix(key, <<"R","U","N","N","E","R","_">>)

\* the keys setVarFile rejects for the target named name
disallowed(name, key) ==
    /\ name = envFile
    /\ \/ key = <<"C","I">>
       \/ key = <<"N","O","D","E","_","O","P","T","I","O","N","S">>
       \/ HasPrefix(key, <<"G","I","T","H","U","B","_">>)
       \/ HasPrefix(key, <<"R","U","N","N","E","R","_">>)

\* mutant: the single-line record without its newline
singleLine_noLF(key, value) == key \o <<"=">> \o value

\* fmt.Fprintf(file, "%s=%s\n", key, value)
singleLine(key, value) == key \o <<"=">> \o value \o <<LF>>

\* mutant: the block closed by the bare random string
multiLine_otherClose(key, delimiter, value) ==
    key \o <<"<", "<">> \o delimiter \o <<LF>> \o value \o <<LF>>
        \o SubSeq(delimiter, Len(delimiter) - size + 1, Len(delimiter))

\* fmt.Fprintf(file, "%s<<%s\n%s\n%s", key, delimiter, value, delimiter)
multiLine(key, delimiter, value) ==
    key \o <<"<", "<">> \o delimiter \o <<LF>> \o value \o <<LF>> \o delimiter

\* setVarFile(name, key, value) when rand.IntN yields draws: the error it
\* returns, the files and the environment after it, and the delimiter it
\* generated (empty when it generated none)
setVarFile(name, key0, value0, draws) ==
    LET key == TrimSpace(key0)
        value == TrimSpace(value0)
        path == Getenv(name)
        fail(e) == [err |-> e, files |-> files, environ |-> environ, delimiter |-> <<>>]
    IN  IF key = <<>> THEN fail(<<"k","e","y"," ","c","a","n","n","o","t"," ","b","e"," ","e","m","p","t","y">>)
        ELSE IF value = <<>> THEN fail(<<"v","a","l","u","e"," ","c","a","n","n","o","t"," ","b","e"," ","e","m","p","t","y">>)
        ELSE IF disallowed(name, key)
             THEN fail(<<"s","e","t","t","i","n","g"," ","$">> \o key \o <<" ","i","s"," ","d","i","s","a","l","l","o","w","e","d">>)
        ELSE IF path = <<>>
             THEN fail(<<"$">> \o name \o <<" ","i","s"," ","n","o","t"," ","s","e","t"," ","o","r"," ","i","s"," ","e","m","p","t","y">>)
        ELSE LET file == OpenFile(files, path)
             IN  IF file.err # nil
                 THEN [err |-> <<"c","o","u","l","d"," ","n","o","t"," ","o","p","e","n"," ","$">> \o outFile \o <<" ","f","i","l","e",":"," ">> \o file.err,
                       files |-> file.files, environ |-> environ, delimiter |-> <<>>]
                 ELSE LET delimiter == IF ContainsLF(value)
                                       THEN <<"g","h","a","d","e","l","i","m","i","t","e","r","_">> \o randString(draws)
                                       ELSE <<>>
                          text == IF ContainsLF(value)
                                  THEN multiLine(key, delimiter, value)
                                  ELSE singleLine(key, value)
                          \* the error of Fprintf is not looked at
                          written == Fprintf(file.files, path, text).files
                      IN  IF name = envFile
                          THEN IF SetenvInvalid(key, value)
                               THEN [err |-> <<"f","a","i","l","e","d"," ","t","o"," ","s","e","t"," ","$">> \o key \o <<":"," ">> \o EINVAL,
                                     files |-> written, environ |-> environ,
                                     delimiter |-> delimiter]
                               ELSE [err |-> nil, files |-> written,
                                     environ |-> [environ EXCEPT ![key] = value],
                                     delimiter |-> delimiter]
                          ELSE [err |-> nil, files |-> written, environ |-> environ,
                                delimiter |-> delimiter]

\* mutant: AddPath that puts the path behind the value of $PATH
addPath_behind(path0) ==
    LET path == TrimSpace(path0)
        githubPathFile == Getenv(pathFile)
        fail(e) == [err |-> e, files |-> files, environ |-> environ, delimiter |-> <<>>]
    IN  IF path = <<>> THEN fail(<<"c","a","n","n","o","t"," ","s","e","t"," ","a","n"," ","e","m","p","t","y"," ","p","a","t","h">>)
        ELSE IF githubPathFile = <<>> THEN fail(<<"$","G","I","T","H","U","B","_","P","A","T","H"," ","i","s"," ","n","o","t"," ","s","e","t"," ","o","r"," ","i","s"," ","e","m","p","t","y">>)
        ELSE LET file == OpenFile(files, githubPathFile)
             IN  IF file.err # nil
                 THEN [err |-> <<"c","o","u","l","d"," ","n","o","t"," ","o","p","e","n"," ","$","G","I","T","H","U","B","_","P","A","T","H"," ","f","i","l","e"," ">> \o githubPathFile
                                \o <<":"," ">> \o file.err,
                       files |-> file.files, environ |-> environ, delimiter |-> <<>>]
                 ELSE LET \* the error of Fprintf is not looked at
                          written == Fprintf(file.files, githubPathFile, path \o <<LF>>).files
                          newPath == Getenv(realPath) \o <<PathListSeparator>> \o path
                      IN  IF SetenvInvalid(realPath, newPath)
                          THEN [err |-> <<"c","o","u","l","d"," ","n","o","t"," ","u","p","d","a","t","e"," ","$","P","A","T","H",":"," ">> \o EINVAL,
                                files |-> written, environ |-> environ, delimiter |-> <<>>]
                          ELSE [err |-> nil, files |-> written,
                                environ |-> [environ EXCEPT ![realPath] = newPath],
                                delimiter |-> <<>>]

\* AddPath(path): the error, the files and the environment after it
addPath(path0) ==
    LET path == TrimSpace(path0)
        githubPathFile == Getenv(pathFile)
        fail(e) == [err |-> e, files |-> files, environ |-> environ, delimiter |-> <<>>]
    IN  IF path = <<>> THEN fail(<<"c","a","n","n","o","t"," ","s","e","t"," ","a","n"," ","e","m","p","t","y"," ","p","a","t","h">>)
        ELSE IF githubPathFile = <<>> THEN fail(<<"$","G","I","T","H","U","B","_","P","A","T","H"," ","i","s"," ","n","o","t"," ","s","e","t"," ","o","r"," ","i","s"," ","e","m","p","t","y">>)
        ELSE LET file == OpenFile(files, githubPathFile)
             IN  IF file.err # nil
                 THEN [err |-> <<"c","o","u","l","d"," ","n","o","t"," ","o","p","e","n"," ","$","G","I","T","H","U","B","_","P","A","T","H"," ","f","i","l","e"," ">> \o githubPathFile
                                \o <<":"," ">> \o file.err,
                       files |-> file.files, environ |-> environ, delimiter |-> <<>>]
                 ELSE LET \* the error of Fprintf is not looked at
                          written == Fprintf(file.files, githubPathFile, path \o <<LF>>).files
                          newPath == path \o <<PathListSeparator>> \o Getenv(realPath)
                      IN  IF SetenvInvalid(realPath, newPath)
                          THEN [err |-> <<"c","o","u","l","d"," ","n","o","t"," ","u","p","d","a","t","e"," ","$","P","A","T","H",":"," ">> \o EINVAL,
                                files |-> written, environ |-> environ, delimiter |-> <<>>]
                          ELSE [err |-> nil, files |-> written,
                                environ |-> [environ EXCEPT ![realPath] = newPath],
                                delimiter |-> <<>>]

\* Summary(contents): the error, the files and the environment after it
summary(contents) ==
    LET path == Getenv(summaryFile)
    IN  IF path = <<>>
        THEN [err |-> <<"$">> \o summaryFile \o <<" ","i","s"," ","n","o","t"," ","s","e","t"," ","o","r"," ","i","s"," ","e","m","p","t","y">>,
              files |-> files, environ |-> environ, delimiter |-> <<>>]
        ELSE LET w == WriteFile(files, path, contents)
             IN  IF w.err # nil
                 THEN [err |-> <<"c","o","u","l","d"," ","n","o","t"," ","w","r","i","t","e"," ","t","o"," ","$">> \o summaryFile \o <<" ","a","t"," ","p","a","t","h"," ">>
                                \o path \o <<":"," ">> \o w.err,
                       files |-> w.files, environ |-> environ, delimiter |-> <<>>]
                 ELSE [err |-> nil, files |-> w.files, environ |-> environ,
                       delimiter |-> <<>>]

\* no call of the package has returned yet
NoRet ==
    [op |-> "none", key |-> <<>>, value |-> <<>>, err |-> nil, delimiter |-> <<>>,
     draws |-> <<>>]

\* no goroutine is inside AddPath
NoGoroutines == <<>>

\* a process that has no protocol file configured and has called nothing
NoProcess ==
    /\ environ = [n \in EnvNames |-> Unset]
    /\ files = [p \in Paths |-> NoFile]
    /\ ret = NoRet
    /\ ncalls = 0
    /\ gor = NoGoroutines

-----------------------------------------------------------------------------
(* The caller of the logger *)

Init ==
    /\ opts = <<>>
    /\ out = <<>>
    /\ last = NoCall
    /\ pc = "build"
    /\ tt = NoCase
    /\ grp = NoGroups
    /\ NoProcess

\* the caller appends one more option to the annotations it will pass
Add(c) ==
    /\ pc = "build"
    /\ Len(opts) < MaxAnns
    /\ opts' = Append(opts, c)
    /\ UNCHANGED <<out, last, pc, tt, grp>>
    /\ UNCHANGED fvars

AddTitle == \E t \in Texts : Add(Title(t))

AddFile == \E f \in Texts : Add(File(f))

AddLines == \E s \in 0..MaxLine, e \in 0..MaxLine : Add(Lines(s, e))

AddSpan == \E s \in 0..MaxCol, e \in 0..MaxCol : Add(Span(s, e))

Call(cmd, message) ==
    /\ pc = "build"
    /\ LET r == log(cmd, message, opts)
       IN  /\ out' = out \o r.wrote
           /\ opts' = r.cs
           /\ last' = [cmd |-> cmd, message |-> message, args |-> opts, ann |-> r.ann,
                       annotation |-> r.annotation, wrote |-> r.wrote]
    /\ pc' = "logged"
    /\ UNCHANGED <<tt, grp>>
    /\ UNCHANGED fvars

Notice(message) == Call(<<"n","o","t","i","c","e">>, message)

Warning(message) == Call(<<"w","a","r","n","i","n","g">>, message)

Error(message) == Call(<<"e","r","r","o","r">>, message)

Next ==
    \/ AddTitle
    \/ AddFile
    \/ AddLines
    \/ AddSpan
    \/ \E m \in Msgs : Notice(m)
    \/ \E m \in Msgs : Warning(m)
    \/ \E m \in Msgs : Error(m)

Spec == Init /\ [][Next]_vars

-----------------------------------------------------------------------------
(* The escapers on every short message: the caller logs one message, with  *)
(* no annotations                                                          *)

NextEsc ==
    \/ pc = "build" /\ \E m \in AllStrs : Notice(m)
    \/ pc = "build" /\ \E m \in AllStrs : Warning(m)
    \/ pc = "build" /\ \E m \in AllStrs : Error(m)

SpecEsc == Init /\ [][NextEsc]_vars

-----------------------------------------------------------------------------
(* The table-driven test: a row gives the arguments of Title, File, Lines  *)
(* and Span, the annotations are constructed from the row and passed in    *)
(* that order                                                              *)

LineArgs == (0..MaxLine) \cup {12, 37}

ColArgs == 0..MaxCol

Rows ==
    [title : Texts, file : Texts, ls : LineArgs, le : LineArgs, cs : ColArgs, ce : ColArgs]

RowAnnotations(row) ==
    <<Title(row.title), File(row.file), Lines(row.ls, row.le), Span(row.cs, row.ce)>>

\* what the writer handed to New may already hold
Writers == {<<>>, <<":",":","d","e","b","u","g",":",":","a", LF>>}

InitCoord ==
    /\ tt \in Rows
    /\ opts = RowAnnotations(tt)
    /\ out \in Writers
    /\ last = NoCall
    /\ pc = "build"
    /\ grp = NoGroups
    /\ NoProcess

NextCoord ==
    \/ \E m \in Msgs : Notice(m)
    \/ \E m \in Msgs : Warning(m)
    \/ \E m \in Msgs : Error(m)

SpecCoord == InitCoord /\ [][NextCoord]_vars

-----------------------------------------------------------------------------
(* Package actions: the runner configures the protocol files, the caller   *)
(* makes up to MaxCalls calls of SetEnv, SetOutput, AddPath and Summary    *)

\* the environment of a step whose four file variables hold env, out, path
\* and sum, and whose $PATH holds real
Environment(e, o, p, s, real) ==
    [n \in EnvNames |->
        CASE n = envFile -> e
          [] n = outFile -> o
          [] n = pathFile -> p
          [] n = summaryFile -> s
          [] n = realPath -> real
          [] OTHER -> Unset]

\* the files of a runner: the four protocol files are empty, MissingPath and
\* NewPath have no file and NoDirPath no directory
Disk ==
    [p \in Paths |->
        CASE p \in {MissingPath, NewPath} -> NoFile
          [] p = NoDirPath -> NoDir
          [] OTHER -> <<>>]

\* the steps the calls run in: variables unset, variables empty, fresh
\* files, variables that name a missing file, variables that name a file in a
\* missing directory
Runners ==
    {[environ |-> Environment(Unset, Unset, Unset, Unset, <<"/","b","i","n">>), files |-> Disk],
     [environ |-> Environment(<<>>, <<>>, <<>>, <<>>, <<"/","b","i","n">>), files |-> Disk],
     [environ |-> Environment(EnvPath, OutPath, PathPath, SumPath, <<"/","b","i","n">>), files |-> Disk],
     [environ |-> Environment(MissingPath, MissingPath, MissingPath, NewPath, Unset),
      files |-> Disk],
     [environ |-> Environment(NoDirPath, NoDirPath, NoDirPath, NoDirPath, <<"/","b","i","n">>),
      files |-> Disk]}

InitFile ==
    /\ opts = <<>>
    /\ out = <<>>
    /\ last = NoCall
    /\ pc = "build"
    /\ tt = NoCase
    /\ grp = NoGroups
    /\ \E r \in Runners : environ = r.environ /\ files = r.files
    /\ ret = NoRet
    /\ ncalls = 0
    /\ gor = NoGoroutines

\* a call of op with key and value returns r
Return(op, key, value, draws, r) ==
    /\ files' = r.files
    /\ environ' = r.environ
    /\ ret' = [op |-> op, key |-> key, value |-> value, err |-> r.err,
               delimiter |-> r.delimiter,
               draws |-> IF r.delimiter = <<>> THEN <<>> ELSE draws]
    /\ ncalls' = ncalls + 1
    /\ UNCHANGED gor
    /\ UNCHANGED lvars

\* what rand.IntN can yield in a call with this value: randString runs only
\* for a value that holds an LF after trimming
Drawn(value) == IF ContainsLF(TrimSpace(value)) THEN RandDraws ELSE {<<>>}

SetEnv(key, value) ==
    \E draws \in Drawn(value) :
        Return("SetEnv", key, value, draws, setVarFile(envFile, key, value, draws))

\* mutant: SetOutput that passes the env target
SetOutput_asEnv(key, value) ==
    \E draws \in Drawn(value) :
        Return("SetOutput", key, value, draws, setVarFile(envFile, key, value, draws))

SetOutput(key, value) ==
    \E draws \in Drawn(value) :
        Return("SetOutput", key, value, draws, setVarFile(outFile, key, value, draws))

AddPath(path) == Return("AddPath", <<>>, path, <<>>, addPath(path))

Summary(contents) == Return("Summary", <<>>, contents, <<>>, summary(contents))

NextFile ==
    \/ ncalls < MaxCalls /\ \E key \in Keys, value \in Values : SetEnv(key, value)
    \/ ncalls < MaxCalls /\ \E key \in Keys, value \in Values : SetOutput(key, value)
    \/ ncalls < MaxCalls /\ \E path \in PathArgs : AddPath(path)
    \/ ncalls < MaxCalls /\ \E contents \in Summaries : Summary(contents)

SpecFile == InitFile /\ [][NextFile]_vars

-----------------------------------------------------------------------------
(* The same calls in a step whose protocol files are on a device with no   *)
(* space left: the files open, writing to them fails                       *)

InitIO ==
    /\ opts = <<>>
    /\ out = <<>>
    /\ last = NoCall
    /\ pc = "build"
    /\ tt = NoCase
    /\ grp = NoGroups
    /\ environ = Environment(FullPath, FullPath, FullPath, FullPath, <<"/","b","i","n">>)
    /\ files = Disk
    /\ ret = NoRet
    /\ ncalls = 0
    /\ gor = NoGoroutines

SpecIO == InitIO /\ [][NextFile]_vars

-----------------------------------------------------------------------------
(* Groups, masks and debug messages: the caller calls the logger, and the  *)
(* fn handed to WithGroup is code of the caller that runs between the      *)
(* StartGroup and the deferred EndGroup of WithGroup                       *)

MaxOps == 4      \* most calls made on the logger in one run

\* the empty title, a title of whitespace, and a title to trim and escape
Titles == {<<>>, <<" ">>, <<" ","a",":">>}

Formats == {<<>>, <<"d",LF>>}

Secrets == {<<>>, <<TAB>>, <<"s","%"," ">>}

\* what Logger.Debug writes, called with a format and no arguments
debug(format) ==
    IF format = <<>> THEN <<>>
    ELSE <<":",":","d","e","b","u","g",":",":">> \o messageEscaper(format) \o <<LF>>

\* mutant: StartGroup that writes the title as it was passed
startGroup_raw(title) ==
    IF title = <<>> THEN <<>>
    ELSE <<":",":","g","r","o","u","p",":",":">> \o title \o <<LF>>

\* what Logger.StartGroup writes
startGroup(title) ==
    IF title = <<>> THEN <<>>
    ELSE <<":",":","g","r","o","u","p",":",":">> \o propertyEscaper(TrimSpace(title)) \o <<LF>>

\* what Logger.EndGroup writes
endGroup == <<":",":","e","n","d","g","r","o","u","p",":",":",LF>>

\* what Logger.Mask writes
mask(str) ==
    IF str = <<>> THEN <<>>
    ELSE <<":",":","a","d","d","-","m","a","s","k",":",":">> \o messageEscaper(TrimSpace(str)) \o <<LF>>

\* the call op(arg) on the logger has written wrote
Logs(op, arg, wrote) ==
    /\ ~grp.panicked
    /\ Len(grp.calls) < MaxOps
    /\ out' = out \o wrote
    /\ grp' = [grp EXCEPT !.calls = Append(@, [op |-> op, arg |-> arg, wrote |-> wrote])]
    /\ UNCHANGED <<opts, last, pc, tt>>
    /\ UNCHANGED fvars

Debug(format) == Logs("Debug", format, debug(format))

StartGroup(title) == Logs("StartGroup", title, startGroup(title))

EndGroup == Logs("EndGroup", <<>>, endGroup)

Mask(str) == Logs("Mask", str, mask(str))

\* WithGroup(title, fn) up to the call of fn: StartGroup has run, EndGroup is
\* deferred, fn is running
WithGroup(title) ==
    /\ ~grp.panicked
    /\ Len(grp.calls) < MaxOps
    /\ out' = out \o startGroup(title)
    /\ grp' = [grp EXCEPT
                 !.stack = Append(@, title),
                 !.calls = Append(@, [op |-> "WithGroup", arg |-> title,
                                      wrote |-> startGroup(title)])]
    /\ UNCHANGED <<opts, last, pc, tt>>
    /\ UNCHANGED fvars

\* the fn of the innermost WithGroup returns: the deferred EndGroup runs and
\* WithGroup returns
FnReturns ==
    /\ ~grp.panicked
    /\ grp.stack # <<>>
    /\ out' = out \o endGroup
    /\ grp' = [grp EXCEPT !.stack = SubSeq(@, 1, Len(@) - 1)]
    /\ UNCHANGED <<opts, last, pc, tt>>
    /\ UNCHANGED fvars

RECURSIVE Times(_, _)
Times(n, s) == IF n = 0 THEN <<>> ELSE s \o Times(n - 1, s)

\* the fn of the innermost WithGroup panics: the deferred EndGroup of each of
\* the k WithGroup calls the panic passes through runs, innermost first; a
\* panic that passes through all of them ends the process
FnPanics(k) ==
    /\ ~grp.panicked
    /\ out' = out \o Times(k, endGroup)
    /\ grp' = [grp EXCEPT !.stack = SubSeq(@, 1, Len(@) - k),
                          !.panicked = (k = Len(grp.stack))]
    /\ UNCHANGED <<opts, last, pc, tt>>
    /\ UNCHANGED fvars

NextGroup ==
    \/ Len(grp.calls) < MaxOps /\ \E title \in Titles : WithGroup(title)
    \/ Len(grp.calls) < MaxOps /\ \E format \in Formats : Debug(format)
    \/ grp.stack # <<>> /\ FnReturns
    \/ grp.stack # <<>> /\ \E k \in 1..Len(grp.stack) : FnPanics(k)

SpecGroup == Init /\ [][NextGroup]_vars

NextCmd ==
    \/ Len(grp.calls) < MaxOps /\ \E title \in Titles : StartGroup(title)
    \/ Len(grp.calls) < MaxOps /\ EndGroup
    \/ Len(grp.calls) < MaxOps /\ \E str \in Secrets : Mask(str)
    \/ Len(grp.calls) < MaxOps /\ \E format \in Formats : Debug(format)

SpecCmd == Init /\ [][NextCmd]_vars

-----------------------------------------------------------------------------
(* AddPath called from several goroutines: each access to the file and to  *)
(* the environment is one step (an O_APPEND write, and os.Getenv and       *)
(* os.Setenv under the lock of package os), and nothing in AddPath holds a  *)
(* lock from one access to the next                                        *)

NumGoroutines == 2   \* the goroutines that call AddPath

Goroutines == 1..NumGoroutines

\* a goroutine that has not called AddPath yet
Idle == [pc |-> "idle", arg |-> <<>>, path |-> <<>>, githubPathFile |-> <<>>,
         newPath |-> <<>>, err |-> nil]

InitConc ==
    /\ opts = <<>>
    /\ out = <<>>
    /\ last = NoCall
    /\ pc = "build"
    /\ tt = NoCase
    /\ grp = NoGroups
    /\ environ = Environment(EnvPath, OutPath, PathPath, SumPath, <<"/","b","i","n">>)
    /\ files = Disk
    /\ ret = NoRet
    /\ ncalls = 0
    /\ gor = [g \in Goroutines |-> Idle]

\* goroutine g moves on; the logger and the record of the sequential calls
\* are not touched
Goes(g, next) ==
    /\ gor' = [gor EXCEPT ![g] = next]
    /\ UNCHANGED <<ret, ncalls>>
    /\ UNCHANGED lvars

\* AddPath(path0) up to os.OpenFile: the checks and the open
AddPath_open(g, path0) ==
    /\ gor[g].pc = "idle"
    /\ LET path == TrimSpace(path0)
           githubPathFile == Getenv(pathFile)
           call == [gor[g] EXCEPT !.arg = path0, !.path = path,
                                  !.githubPathFile = githubPathFile]
       IN  IF path = <<>>
           THEN Goes(g, [call EXCEPT !.pc = "done", !.err = <<"c","a","n","n","o","t"," ","s","e","t"," ","a","n"," ","e","m","p","t","y"," ","p","a","t","h">>])
           ELSE IF githubPathFile = <<>>
           THEN Goes(g, [call EXCEPT !.pc = "done",
                                     !.err = <<"$","G","I","T","H","U","B","_","P","A","T","H"," ","i","s"," ","n","o","t"," ","s","e","t"," ","o","r"," ","i","s"," ","e","m","p","t","y">>])
           ELSE IF OpenFile(files, githubPathFile).err # nil
           THEN Goes(g, [call EXCEPT !.pc = "done",
                            !.err = <<"c","o","u","l","d"," ","n","o","t"," ","o","p","e","n"," ","$","G","I","T","H","U","B","_","P","A","T","H"," ","f","i","l","e"," ">> \o githubPathFile
                                    \o <<":"," ">> \o OpenFile(files, githubPathFile).err])
           ELSE Goes(g, [call EXCEPT !.pc = "write"])
    /\ UNCHANGED <<environ, files>>

\* fmt.Fprintf(file, "%s\n", path)
AddPath_write(g) ==
    /\ gor[g].pc = "write"
    /\ files' = Fprintf(files, gor[g].githubPathFile, gor[g].path \o <<LF>>).files
    /\ Goes(g, [gor[g] EXCEPT !.pc = "getenv"])
    /\ UNCHANGED environ

\* newPath := fmt.Sprintf("%s%s%s", path, string(os.PathListSeparator), os.Getenv(realPath))
AddPath_getenv(g) ==
    /\ gor[g].pc = "getenv"
    /\ Goes(g, [gor[g] EXCEPT !.pc = "setenv",
                   !.newPath = gor[g].path \o <<PathListSeparator>> \o Getenv(realPath)])
    /\ UNCHANGED <<environ, files>>

\* os.Setenv(realPath, newPath) and the return
AddPath_setenv(g) ==
    /\ gor[g].pc = "setenv"
    /\ IF SetenvInvalid(realPath, gor[g].newPath)
       THEN /\ Goes(g, [gor[g] EXCEPT !.pc = "done",
                           !.err = <<"c","o","u","l","d"," ","n","o","t"," ","u","p","d","a","t","e"," ","$","P","A","T","H",":"," ">> \o EINVAL])
            /\ UNCHANGED environ
       ELSE /\ environ' = [environ EXCEPT ![realPath] = gor[g].newPath]
            /\ Goes(g, [gor[g] EXCEPT !.pc = "done"])
    /\ UNCHANGED files

NextConc ==
    \/ \E g \in Goroutines, path \in PathArgs : AddPath_open(g, path)
    \/ \E g \in Goroutines : AddPath_write(g)
    \/ \E g \in Goroutines : AddPath_getenv(g)
    \/ \E g \in Goroutines : AddPath_setenv(g)

SpecConc == InitConc /\ [][NextConc]_vars

-----------------------------------------------------------------------------
(* Reading a rendered annotation back                                      *)

KeyTitle == <<"t","i","t","l","e","=">>
KeyFile == <<"f","i","l","e","=">>
KeyLine == <<"l","i","n","e","=">>
KeyEndLine == <<"e","n","d","L","i","n","e","=">>
KeyCol == <<"c","o","l","=">>
KeyEndColumn == <<"e","n","d","C","o","l","u","m","n","=">>

IsPrefix(p, s) == Len(p) <= Len(s) /\ SubSeq(s, 1, Len(p)) = p

IsSuffix(p, s) == Len(p) <= Len(s) /\ SubSeq(s, Len(s) - Len(p) + 1, Len(s)) = p

Contains(s, sub) ==
    \E i \in 1..(Len(s) + 1) : i + Len(sub) - 1 <= Len(s) /\ SubSeq(s, i, i + Len(sub) - 1) = sub

RECURSIVE JoinComma(_)
JoinComma(fs) ==
    IF fs = <<>> THEN <<>>
    ELSE IF Len(fs) = 1 THEN fs[1]
    ELSE fs[1] \o <<",">> \o JoinComma(Tail(fs))

\* the pieces of s between its commas
RECURSIVE SplitComma(_)
SplitComma(s) ==
    IF \A i \in 1..Len(s) : s[i] # "," THEN <<s>>
    ELSE LET k == CHOOSE i \in 1..Len(s) : s[i] = "," /\ \A j \in 1..(i - 1) : s[j] # ","
         IN  <<SubSeq(s, 1, k - 1)>> \o SplitComma(SubSeq(s, k + 1, Len(s)))

\* the value of the field with the given key in a rendered annotation, or
\* Absent when no comma-separated piece starts with the key
Absent == <<"absent">>

FieldValue(a, key) ==
    LET ps == SplitComma(a)
    IN  IF \E i \in 1..Len(ps) : IsPrefix(key, ps[i])
        THEN LET k == CHOOSE i \in 1..Len(ps) : IsPrefix(key, ps[i])
             IN  SubSeq(ps[k], Len(key) + 1, Len(ps[k]))
        ELSE Absent

\* the key=value fields of an annotation whose value is not the zero value,
\* in the fixed order
PresentFields(ann) ==
    (IF ann.Title # <<>> THEN <<KeyTitle \o propertyEscaper(ann.Title)>> ELSE <<>>)
    \o (IF ann.File # <<>> THEN <<KeyFile \o propertyEscaper(ann.File)>> ELSE <<>>)
    \o (IF ann.StartLine # 0 THEN <<KeyLine \o Dec(ann.StartLine)>> ELSE <<>>)
    \o (IF ann.EndLine # 0 THEN <<KeyEndLine \o Dec(ann.EndLine)>> ELSE <<>>)
    \o (IF ann.StartColumn # 0 THEN <<KeyCol \o Dec(ann.StartColumn)>> ELSE <<>>)
    \o (IF ann.EndColumn # 0 THEN <<KeyEndColumn \o Dec(ann.EndColumn)>> ELSE <<>>)

Logged == pc = "logged" /\ last.message # <<>>

Kinds(args) == {args[i].kind : i \in 1..Len(args)}

Perms(n) == {p \in [1..n -> 1..n] : \A i, j \in 1..n : p[i] = p[j] => i = j}

Permute(args, p) == [i \in 1..Len(args) |-> args[p[i]]]

-----------------------------------------------------------------------------
(* Claims *)

\* C1: for every sequence of Title/File/Lines/Span options passed to Notice,
\* Warning or Error, the rendered annotation has no leading, trailing or
\* doubled comma, and every two adjacent rendered key=value fields are
\* separated by exactly one comma (the annotation is its rendered fields
\* joined by single commas).
C1_CommaBetweenAdjacentFields ==
    Logged =>
        LET a == last.annotation
        IN  /\ a # <<>> => (a[1] # "," /\ a[Len(a)] # ",")
            /\ \A i \in 1..(Len(a) - 1) : ~(a[i] = "," /\ a[i + 1] = ",")
            /\ a = JoinComma(PresentFields(last.ann))

\* C2: the log line does not depend on the order of the options: for a
\* collection with at most one each of Title, File, Lines and Span, every
\* permutation of it produces the same output.
C2_OrderOfOptionsIrrelevant ==
    (Logged /\ Cardinality(Kinds(last.args)) = Len(last.args)) =>
        \A p \in Perms(Len(last.args)) :
            log(last.cmd, last.message, Permute(last.args, p)).wrote = last.wrote

\* C3: line and endLine are rendered only if a file field is rendered: when
\* the final annotation has no file, no line field appears in the output.
C3_LinesOnlyWithFile ==
    Logged =>
        ((Contains(last.annotation, KeyLine) \/ Contains(last.annotation, KeyEndLine))
            => (last.ann.File # <<>> /\ Contains(last.annotation, KeyFile)))

\* C4: col and endColumn are rendered only if line and endLine are rendered
\* and are equal.
C4_ColumnsOnlyOnSingleLine ==
    Logged =>
        ((Contains(last.annotation, KeyCol) \/ Contains(last.annotation, KeyEndColumn))
            => /\ Contains(last.annotation, KeyLine)
               /\ Contains(last.annotation, KeyEndLine)
               /\ last.ann.StartLine = last.ann.EndLine)

-----------------------------------------------------------------------------
(* Lines and Span arguments (checked on the rows of the table, SpecCoord)  *)

Max(a, b) == IF a >= b THEN a ELSE b

\* C5: Lines(start, end) applied to an annotation that has a file renders
\* line = max(start, 1) and endLine = max(end, 1, line), hence line >= 1 and
\* endLine >= line.
C5_LinesClamped ==
    (Logged /\ tt.file # <<>>) =>
        LET line == Max(tt.ls, 1)
            endLine == Max(Max(tt.le, 1), line)
        IN  /\ FieldValue(last.annotation, KeyLine) = Dec(line)
            /\ FieldValue(last.annotation, KeyEndLine) = Dec(endLine)
            /\ last.ann.StartLine >= 1
            /\ last.ann.EndLine >= last.ann.StartLine

\* Lines(37, 12) after a file has been logged as line=37,endLine=37
C5_Witness ==
    /\ Logged
    /\ tt.file # <<>>
    /\ tt.ls = 37
    /\ tt.le = 12
    /\ FieldValue(last.annotation, KeyLine) = <<"3", "7">>
    /\ FieldValue(last.annotation, KeyEndLine) = <<"3", "7">>

-----------------------------------------------------------------------------
(* Escaping (C7 and C8 on every short message, SpecEsc)                    *)

\* the escaped message of a line written without annotations: what stands
\* between ::<cmd>:: and the final LF
MessagePart == SubSeq(last.wrote, Len(last.cmd) + 5, Len(last.wrote) - 1)

Codes == {<<"2", "5">>, <<"0", "D">>, <<"0", "A">>}

HasSpecial(s) == \E i \in 1..Len(s) : s[i] \in {"%", CR, LF}

\* C7: for every message containing '%', CR or LF, the escaped message holds
\* no raw CR or LF, and every '%' in it starts one of the escape sequences
\* %25, %0D, %0A.
C7_NoRawSpecialInEscaped ==
    (Logged /\ HasSpecial(last.message)) =>
        LET e == MessagePart
        IN  \A i \in 1..Len(e) :
                /\ e[i] # CR
                /\ e[i] # LF
                /\ e[i] = "%" => (i + 2 <= Len(e) /\ <<e[i + 1], e[i + 2]>> \in Codes)

\* a message of '%', CR and LF has been logged
C7_Witness ==
    /\ Logged
    /\ last.message = <<"%", CR, LF>>
    /\ MessagePart = <<"%","2","5","%","0","D","%","0","A">>

\* the inverse substitution, one pass from the left: %0A to LF, %0D to CR,
\* %25 to '%'
RECURSIVE Unescape(_)
Unescape(e) ==
    IF e = <<>> THEN <<>>
    ELSE IF Len(e) >= 3 /\ e[1] = "%" /\ <<e[2], e[3]>> \in Codes
         THEN <<(CASE <<e[2], e[3]>> = <<"0", "A">> -> LF
                   [] <<e[2], e[3]>> = <<"0", "D">> -> CR
                   [] OTHER -> "%")>>
              \o Unescape(SubSeq(e, 4, Len(e)))
         ELSE <<e[1]>> \o Unescape(Tail(e))

\* C8: message escaping is invertible: the inverse substitution applied to
\* the escaped message gives back the message, also for messages that hold
\* the literal text %25, %0A or %0D.
C8_EscapeRoundTrips ==
    Logged => Unescape(MessagePart) = last.message

\* the literal text %0A has been logged as %250A
C8_Witness ==
    /\ Logged
    /\ last.message = <<"%", "0", "A">>
    /\ MessagePart = <<"%", "2", "5", "0", "A">>

\* property escaping as the claim states it: message escaping, plus ':' to
\* %3A and ',' to %2C
RECURSIVE PropertyEscaped(_)
PropertyEscaped(s) ==
    IF s = <<>> THEN <<>>
    ELSE (CASE Head(s) = ":" -> <<"%", "3", "A">>
            [] Head(s) = "," -> <<"%", "2", "C">>
            [] OTHER -> messageEscaper(<<Head(s)>>))
         \o PropertyEscaped(Tail(s))

\* the narrow table: '%' to %25, CR to %0D, LF to %0A, the rest as it is
RECURSIVE NarrowEscaped(_)
NarrowEscaped(s) ==
    IF s = <<>> THEN <<>>
    ELSE (CASE Head(s) = "%" -> <<"%", "2", "5">>
            [] Head(s) = CR -> <<"%", "0", "D">>
            [] Head(s) = LF -> <<"%", "0", "A">>
            [] OTHER -> <<Head(s)>>)
         \o NarrowEscaped(Tail(s))

\* C9: title and file are rendered with property escaping (message escaping
\* plus ':' to %3A and ',' to %2C), applied once; the message is escaped
\* with the narrow table only, ':' and ',' in it stay raw.
C9_PropertyAndMessageEscaping ==
    Logged =>
        LET t == last.ann.Title
            f == last.ann.File
            head == (IF t # <<>> THEN KeyTitle \o PropertyEscaped(t) ELSE <<>>)
                    \o (IF t # <<>> /\ f # <<>> THEN <<",">> ELSE <<>>)
                    \o (IF f # <<>> THEN KeyFile \o PropertyEscaped(f) ELSE <<>>)
        IN  /\ IsPrefix(head, last.annotation)
            /\ IsSuffix(<<":", ":">> \o NarrowEscaped(last.message) \o <<LF>>, last.wrote)
            /\ (last.annotation # <<>>) =>
                    IsPrefix(<<":", ":">> \o last.cmd \o <<" ">> \o head, last.wrote)

\* a title and a file with '%', ':', ',', CR and LF have been logged with a
\* message that holds ':' and ','
C9_Witness ==
    /\ Logged
    /\ last.ann.Title = Nasty
    /\ last.ann.File = Nasty
    /\ Contains(last.message, <<":", ",">>)
    /\ Contains(last.wrote, <<"a", ":", ",", "%", "2", "5">>)

\* C10: Notice, Warning and Error called with the empty message write
\* nothing, whatever annotations are passed: the content of the writer is
\* unchanged by the call.
C10_EmptyMessageWritesNothing ==
    [][(pc = "build" /\ pc' = "logged" /\ last'.message = <<>>) => out' = out]_vars

\* a call with the empty message and a title, a file, lines and a span has
\* returned, on a writer that held a line before
C10_Witness ==
    /\ pc = "logged"
    /\ last.message = <<>>
    /\ tt.title # <<>>
    /\ tt.file # <<>>
    /\ tt.cs = 1
    /\ out # <<>>

-----------------------------------------------------------------------------
(* The two forms of the line (Spec)                                        *)

PlainForm ==
    <<":", ":">> \o last.cmd \o <<":", ":">> \o NarrowEscaped(last.message) \o <<LF>>

AnnotatedForm ==
    <<":", ":">> \o last.cmd \o <<" ">> \o last.annotation
        \o <<":", ":">> \o NarrowEscaped(last.message) \o <<LF>>

\* no Title or File option with a text was passed
NoTextOption(args) ==
    \A i \in 1..Len(args) : args[i].kind \in {"Title", "File"} => args[i].text = <<>>

\* C11: a call with a non-empty message and no options, or with options
\* that all end up omitted (such as only Lines or only Span), writes exactly
\* ::<cmd>::<escaped message> and one LF, with no space and no annotation
\* section; every other call writes ::<cmd> <annotation>::<escaped message>
\* and one LF.
C11_AnnotationSectionOnlyWhenRendered ==
    Logged =>
        /\ NoTextOption(last.args) => last.annotation = <<>>
        /\ (last.annotation = <<>>) <=> (PresentFields(last.ann) = <<>>)
        /\ IF last.annotation = <<>>
           THEN last.wrote = PlainForm
           ELSE last.wrote = AnnotatedForm

\* a call with only Lines has written the plain form
C11_Witness ==
    /\ Logged
    /\ Len(last.args) = 1
    /\ last.args[1].kind = "Lines"
    /\ last.args[1].start = 2
    /\ last.wrote = PlainForm

\* the positions at which key occurs in the rendered annotation a
Occurrences(a, key) ==
    {i \in 1..(Len(a) - Len(key) + 1) : a[i] = key[1] /\ SubSeq(a, i, i + Len(key) - 1) = key}

FieldOrder == <<KeyTitle, KeyFile, KeyLine, KeyEndLine, KeyCol, KeyEndColumn>>

\* every key occurs at most once in a, and the keys that occur stand in the
\* fixed order
InFieldOrder(a) ==
    LET occ == [k \in 1..Len(FieldOrder) |-> Occurrences(a, FieldOrder[k])]
    IN  /\ \A k \in 1..Len(FieldOrder) : Cardinality(occ[k]) <= 1
        /\ \A j, k \in 1..Len(FieldOrder) :
                j < k => \A p \in occ[j], q \in occ[k] : p < q

SyntaxError == <<"S","y","n","t","a","x"," ","E","r","r","o","r">>
SrcLibRs == <<"s","r","c","/","l","i","b",".","r","s">>
UnexpectedToken ==
    <<"U","n","e","x","p","e","c","t","e","d"," ","t","o","k","e","n"," ","'","<","'">>
NoticeCmd == <<"n","o","t","i","c","e">>
SyntaxErrorLine ==
    <<":", ":">> \o NoticeCmd \o <<" ">> \o KeyTitle \o SyntaxError \o <<",">>
        \o KeyFile \o SrcLibRs \o <<":", ":">> \o UnexpectedToken \o <<LF>>

\* C12: whatever the order of the options, the rendered fields stand in the
\* order title, file, line, endLine, col, endColumn, each at most once; and
\* Notice("Unexpected token '<'", Title("Syntax Error"), File("src/lib.rs"))
\* writes exactly
\* ::notice title=Syntax Error,file=src/lib.rs::Unexpected token '<' and LF,
\* as does the call with File before Title (computed in the states in which
\* Notice has been called with one Title and one File).
C12_FixedFieldOrder ==
    Logged =>
        /\ InFieldOrder(last.annotation)
        /\ (last.cmd = NoticeCmd /\ Len(last.args) = 2 /\ Kinds(last.args) = {"Title", "File"})
            => /\ log(last.cmd, UnexpectedToken, <<Title(SyntaxError), File(SrcLibRs)>>).wrote
                    = SyntaxErrorLine
               /\ log(last.cmd, UnexpectedToken, <<File(SrcLibRs), Title(SyntaxError)>>).wrote
                    = SyntaxErrorLine

\* File, then Title, then Title again have been passed, and the line has
\* the title once, before the file
C12_Witness ==
    /\ Logged
    /\ Len(last.args) = 3
    /\ last.args[1] = File(Nasty)
    /\ last.args[2] = Title(Nasty)
    /\ last.args[3] = Title(Nasty)
    /\ Cardinality(Occurrences(last.annotation, KeyTitle)) = 1
    /\ IsPrefix(KeyTitle, last.annotation)
    /\ Contains(last.annotation, <<",">> \o KeyFile)

-----------------------------------------------------------------------------
(* The writers of package actions (SpecFile)                               *)

\* a call of the package returns in this step
Returns == ncalls' = ncalls + 1

\* s is empty once the whitespace at its ends is removed
Blank(s) == \A i \in 1..Len(s) : s[i] \in {" ", TAB, LF, CR}

\* the variable that names the target file of op
Indirection(op) ==
    CASE op = "SetEnv" -> envFile
      [] op = "SetOutput" -> outFile
      [] op = "AddPath" -> pathFile
      [] OTHER -> summaryFile

\* C13: SetEnv and SetOutput called with a key or a value that is empty
\* after trimming, and AddPath called with a path that is empty after
\* trimming, return an error that names an input that was empty, and leave
\* every file and the whole environment ($PATH included) unchanged.
C13_EmptyInputRejectedBeforeIO ==
    [][/\ (Returns /\ ret'.op \in {"SetEnv", "SetOutput"}
              /\ (Blank(ret'.key) \/ Blank(ret'.value)))
            => /\ \/ ret'.err = <<"k","e","y"," ","c","a","n","n","o","t"," ","b","e"," ","e","m","p","t","y">> /\ Blank(ret'.key)
                  \/ ret'.err = <<"v","a","l","u","e"," ","c","a","n","n","o","t"," ","b","e"," ","e","m","p","t","y">> /\ Blank(ret'.value)
               /\ files' = files
               /\ environ' = environ
       /\ (Returns /\ ret'.op = "AddPath" /\ Blank(ret'.value))
            => /\ ret'.err = <<"c","a","n","n","o","t"," ","s","e","t"," ","a","n"," ","e","m","p","t","y"," ","p","a","t","h">>
               /\ files' = files
               /\ environ' = environ]_vars

\* SetEnv with a key and a value of whitespace has been refused for its
\* value in a step whose env file exists
C13_Witness ==
    /\ ret.op = "SetEnv"
    /\ ~Blank(ret.key)
    /\ ret.value = <<" ">>
    /\ ret.err = <<"v","a","l","u","e"," ","c","a","n","n","o","t"," ","b","e"," ","e","m","p","t","y">>
    /\ environ[envFile] = EnvPath
    /\ files[EnvPath] = <<>>

\* a key of the four reserved kinds
Reserved(key) ==
    \/ key = <<"C","I">>
    \/ key = <<"N","O","D","E","_","O","P","T","I","O","N","S">>
    \/ IsPrefix(<<"G","I","T","H","U","B","_">>, key)
    \/ IsPrefix(<<"R","U","N","N","E","R","_">>, key)

Disallowed(key) == <<"s","e","t","t","i","n","g"," ","$">> \o key \o <<" ","i","s"," ","d","i","s","a","l","l","o","w","e","d">>

\* C14: SetEnv with a non-blank value and a trimmed key that is CI or
\* NODE_OPTIONS or starts with GITHUB_ or RUNNER_ returns the error
\* 'setting $<key> is disallowed' and leaves the files and the environment
\* unchanged; SetEnv with any other key does not return that error; and
\* SetOutput with a reserved key, a non-blank value and an existing target
\* file returns nil and appends a record that starts with the key.
C14_ReservedKeysOnlyForEnv ==
    [][(Returns /\ ~Blank(ret'.key) /\ ~Blank(ret'.value)) =>
        LET key == TrimSpace(ret'.key)
            path == Getenv(outFile)
        IN  /\ (ret'.op = "SetEnv" /\ Reserved(key))
                => (ret'.err = Disallowed(key) /\ files' = files /\ environ' = environ)
            /\ (ret'.op = "SetEnv" /\ ~Reserved(key)) => ret'.err # Disallowed(key)
            /\ (ret'.op = "SetOutput" /\ Reserved(key) /\ IsFile(files, path))
                => /\ ret'.err = nil
                   /\ IsPrefix(files[path] \o key, files'[path])
                   /\ Len(files'[path]) > Len(files[path]) + Len(key)
                   /\ environ' = environ]_vars

\* SetEnv of CI has been refused and, before it, SetOutput of a reserved key
\* has appended to the output file
C14_Witness ==
    /\ ret.op = "SetEnv"
    /\ ret.key = <<"C","I">>
    /\ ret.err = Disallowed(<<"C","I">>)
    /\ Contains(files[OutPath], <<"G","I","T","H","U","B","_","X","=","v">>)
    /\ files[EnvPath] = <<>>

\* the inputs of the call pass validation
ValidCall(r) ==
    CASE r.op \in {"SetEnv", "SetOutput"} ->
            /\ ~Blank(r.key)
            /\ ~Blank(r.value)
            /\ (r.op = "SetEnv" => ~Reserved(TrimSpace(r.key)))
      [] r.op = "AddPath" -> ~Blank(r.value)
      [] OTHER -> TRUE

NotConfigured == <<"n","o","t"," ","s","e","t"," ","o","r"," ","i","s"," ","e","m","p","t","y">>
CannotOpen == <<"c","o","u","l","d"," ","n","o","t"," ","o","p","e","n">>

\* C15: a call of SetEnv, SetOutput, AddPath or Summary with valid inputs
\* whose file variable is unset or empty returns an error that says 'not set
\* or is empty'; a call of SetEnv, SetOutput or AddPath whose file variable
\* names a path with no file returns an error that says 'could not open' and
\* not 'not set or is empty'; in both cases no file is written or created and
\* the environment ($PATH included) is unchanged.
C15_NotConfiguredAndCannotOpen ==
    [][(Returns /\ ValidCall(ret')) =>
        LET path == Getenv(Indirection(ret'.op))
        IN  /\ path = <<>>
                => /\ Contains(ret'.err, NotConfigured)
                   /\ ~Contains(ret'.err, CannotOpen)
                   /\ files' = files
                   /\ environ' = environ
            /\ (path # <<>> /\ ~IsFile(files, path) /\ ret'.op # "Summary")
                => /\ Contains(ret'.err, CannotOpen)
                   /\ ~Contains(ret'.err, NotConfigured)
                   /\ files' = files
                   /\ environ' = environ]_vars

\* AddPath has failed to open the file that $GITHUB_PATH names, and the
\* file still does not exist
C15_Witness ==
    /\ ret.op = "AddPath"
    /\ ret.value = <<" ","p">>
    /\ Contains(ret.err, CannotOpen)
    /\ environ[pathFile] = MissingPath
    /\ files[MissingPath] = NoFile

\* C16: SetEnv, SetOutput and AddPath are append-only: on every call the
\* content a file had before is a prefix of its content after, a call that
\* returns nil appends to its target file only, a call that returns an error
\* leaves every file unchanged, and a path with no file still has no file.
C16_AppendOnly ==
    [][(Returns /\ ret'.op \in {"SetEnv", "SetOutput", "AddPath"}) =>
        LET path == Getenv(Indirection(ret'.op))
        IN  /\ \A p \in Paths :
                /\ ~IsFile(files, p) => files'[p] = files[p]
                /\ IsFile(files, p) => (IsFile(files', p) /\ IsPrefix(files[p], files'[p]))
            /\ ret'.err = nil
                => /\ Len(files'[path]) > Len(files[path])
                   /\ \A p \in Paths \ {path} : files'[p] = files[p]
            /\ ret'.err # nil => files' = files]_vars

\* C17: a SetEnv or SetOutput that returns nil and whose trimmed value holds
\* no LF appends exactly <trimmed key>=<trimmed value> and one LF to its
\* target file; and SetEnv or SetOutput of key SOMETHING and value 'value' on
\* an empty target file leaves the file content SOMETHING=value and LF.
C17_SingleLineRecord ==
    [][/\ (Returns /\ ret'.op \in {"SetEnv", "SetOutput"} /\ ret'.err = nil
              /\ ~ContainsLF(TrimSpace(ret'.value)))
            => LET path == Getenv(Indirection(ret'.op))
               IN  files'[path] = files[path] \o TrimSpace(ret'.key) \o <<"=">>
                                      \o TrimSpace(ret'.value) \o <<LF>>
       /\ \A name \in {envFile, outFile} :
            (IsFile(files, Getenv(name)) /\ files[Getenv(name)] = <<>>)
                => \A draws \in RandDraws :
                    LET r == setVarFile(name, <<"S","O","M","E","T","H","I","N","G">>, <<"v","a","l","u","e">>, draws)
                    IN  /\ r.err = nil
                        /\ r.files[Getenv(name)] = <<"S","O","M","E","T","H","I","N","G","=","v","a","l","u","e",LF>>]_vars

\* SetEnv(" K", "v\t") has appended K=v and LF to the empty env file
C17_Witness ==
    /\ ret.op = "SetEnv"
    /\ ret.key = <<" ","K">>
    /\ ret.value = <<"v",TAB>>
    /\ ret.err = nil
    /\ environ[envFile] = EnvPath
    /\ files[EnvPath] = <<"K","=","v",LF>>

Tag == <<"g","h","a","d","e","l","i","m","i","t","e","r","_">>

Alnum ==
    {"a", "b", "c", "d", "e", "f", "g", "h", "i", "j", "k", "l", "m", "n", "o", "p", "q", "r", "s", "t", "u", "v", "w", "x", "y", "z", "A", "B", "C", "D", "E", "F", "G", "H", "I", "J", "K", "L", "M", "N", "O", "P", "Q", "R", "S", "T", "U", "V", "W", "X", "Y", "Z", "0", "1", "2", "3", "4", "5", "6", "7", "8", "9"}

\* a delimiter token: the tag and 16 characters of [A-Za-z0-9]
IsToken(d) ==
    /\ Len(d) = Len(Tag) + 16
    /\ IsPrefix(Tag, d)
    /\ \A i \in (Len(Tag) + 1)..Len(d) : d[i] \in Alnum

RECURSIVE SplitLines(_)
SplitLines(s) ==
    IF \A i \in 1..Len(s) : s[i] # LF THEN <<s>>
    ELSE LET k == CHOOSE i \in 1..Len(s) : s[i] = LF /\ \A j \in 1..(i - 1) : s[j] # LF
         IN  <<SubSeq(s, 1, k - 1)>> \o SplitLines(SubSeq(s, k + 1, Len(s)))

\* C19: the output file, to which only successful SetOutput calls have
\* written, is a sequence of newline-delimited records: every line that holds
\* a delimiter is either the opening line <key><<token of a block or a
\* closing line that consists of the token alone, so no record is glued onto
\* a closing delimiter.
C19_NewlineDelimitedRecords ==
    (environ[outFile] = OutPath) =>
        LET ls == SplitLines(files[OutPath])
        IN  \A i \in 1..Len(ls) :
                Contains(ls[i], Tag) =>
                    \/ IsToken(ls[i])
                    \/ \E k \in 1..(Len(ls[i]) - 1) :
                        /\ SubSeq(ls[i], k, k + 1) = <<"<", "<">>
                        /\ ~Contains(SubSeq(ls[i], 1, k - 1), Tag)
                        /\ IsToken(SubSeq(ls[i], k + 2, Len(ls[i])))

\* C20 as stated: two consecutive multiline writes produce two different
\* delimiter tokens.
C20_ConsecutiveDelimitersDiffer ==
    [][(Returns /\ ret.delimiter # <<>> /\ ret'.delimiter # <<>>)
        => ret'.delimiter # ret.delimiter]_vars

\* C20, amended: the delimiter of a multiline write is generated in that
\* call from the call's own random draws (the tag and the characters of the
\* charset the 16 draws select), whatever the call before produced; the
\* tokens of two consecutive multiline writes are equal exactly when all
\* their draws are equal.
C20_DelimiterFreshFromDraws ==
    [][(Returns /\ ret'.delimiter # <<>>) =>
        /\ Len(ret'.draws) = 16
        /\ ret'.delimiter = Tag \o [i \in 1..16 |-> charset[ret'.draws[i] + 1]]
        /\ ret.delimiter # <<>>
            => ((ret'.delimiter = ret.delimiter) <=> (ret'.draws = ret.draws))]_vars

\* two multiline writes to the output file, one after the other, have
\* produced two different tokens
C20_Witness ==
    /\ ret.op = "SetOutput"
    /\ IsToken(ret.delimiter)
    /\ ret.delimiter # Tag \o [i \in 1..16 |-> "a"]
    /\ Contains(files[OutPath], Tag \o [i \in 1..16 |-> "a"])
    /\ environ[outFile] = OutPath
    /\ Len(SplitLines(files[OutPath])) = 7

\* C21: a SetEnv that returns nil leaves the variable <trimmed key> holding
\* the trimmed value (single-line or multiline) and every other variable as it
\* was; a SetEnv that returns an error, and every SetOutput, leave the whole
\* environment unchanged.
C21_EnvironmentSetBySetEnv ==
    [][(Returns /\ ret'.op \in {"SetEnv", "SetOutput"}) =>
        LET key == TrimSpace(ret'.key)
            value == TrimSpace(ret'.value)
        IN  /\ (ret'.op = "SetEnv" /\ ret'.err = nil)
                => /\ environ'[key] = value
                   /\ \A n \in EnvNames \ {key} : environ'[n] = environ[n]
            /\ (ret'.op = "SetEnv" /\ ret'.err # nil) => environ' = environ
            /\ ret'.op = "SetOutput" => environ' = environ]_vars

\* SetEnv(" K", "x\ny") has returned nil and K holds the two lines, after a
\* SetOutput that wrote to the output file
C21_Witness ==
    /\ ret.op = "SetEnv"
    /\ ret.key = <<" ","K">>
    /\ ret.err = nil
    /\ environ[<<"K">>] = <<"x",LF,"y">>
    /\ files[OutPath] # <<>>

\* C22: when the target file opens and writing the record to it fails,
\* SetEnv, SetOutput and AddPath return an error, and the environment ($PATH
\* included) is left as it was.
C22_WriteFailureReturned ==
    [][(Returns /\ ret'.op \in {"SetEnv", "SetOutput", "AddPath"} /\ ValidCall(ret')
            /\ Getenv(Indirection(ret'.op)) = FullPath /\ IsFile(files, FullPath))
        => (ret'.err # nil /\ environ' = environ)]_vars

\* C23: an AddPath(p) that returns nil appends exactly <trimmed p> and LF to
\* the path-list file and sets $PATH to <trimmed p>:<previous value>, nothing
\* else; when the call before it was an AddPath(p1) that returned nil, the
\* file ends with p1, p2 in call order and $PATH is p2:p1:<original>.
C23_AddPathPrepends ==
    [][(Returns /\ ret'.op = "AddPath" /\ ret'.err = nil) =>
        LET path == Getenv(pathFile)
            p2 == TrimSpace(ret'.value)
        IN  /\ files'[path] = files[path] \o p2 \o <<LF>>
            /\ \A q \in Paths \ {path} : files'[q] = files[q]
            /\ environ'[realPath] = p2 \o <<":">> \o Getenv(realPath)
            /\ \A n \in EnvNames \ {realPath} : environ'[n] = environ[n]
            /\ (ret.op = "AddPath" /\ ret.err = nil)
                => LET p1 == TrimSpace(ret.value)
                       original == SubSeq(environ[realPath], Len(p1) + 2, Len(environ[realPath]))
                   IN  /\ environ[realPath] = p1 \o <<":">> \o original
                       /\ ncalls = 1 => original = <<"/","b","i","n">>
                       /\ IsSuffix(p1 \o <<LF>> \o p2 \o <<LF>>, files'[path])
                       /\ environ'[realPath] = p2 \o <<":">> \o p1 \o <<":">> \o original]_vars

\* AddPath(" p") and then AddPath("r") have returned nil
C23_Witness ==
    /\ ret.op = "AddPath"
    /\ ret.value = <<"r">>
    /\ ret.err = nil
    /\ files[PathPath] = <<"p",LF,"r",LF>>
    /\ environ[realPath] = <<"r",":","p",":","/","b","i","n">>

\* C24: a Summary that returns nil leaves the step-summary file holding
\* exactly the contents of this call, whatever it held before (nothing, a
\* shorter or a longer text), creating the file when it did not exist, and
\* leaves every other file and the environment unchanged; a call of another
\* operation whose target is another file leaves the step-summary file as
\* the last Summary left it.
C24_SummaryOverwrites ==
    [][Returns =>
        LET path == Getenv(summaryFile)
        IN  /\ (ret'.op = "Summary" /\ ret'.err = nil)
                => /\ files'[path] = ret'.value
                   /\ \A q \in Paths \ {path} : files'[q] = files[q]
                   /\ environ' = environ
            /\ (ret'.op # "Summary" /\ path \in Paths
                    /\ Getenv(Indirection(ret'.op)) # path)
                => files'[path] = files[path]]_vars

\* Summary has created the file that did not exist and, called again with a
\* shorter text, has left only that text
C24_Witness ==
    /\ ret.op = "Summary"
    /\ ret.err = nil
    /\ ret.value = <<"#">>
    /\ ncalls = 2
    /\ environ[summaryFile] = NewPath
    /\ files[NewPath] = <<"#">>

\* C27: an annotation option is reusable: passing the options of the call
\* that has run to a second call, after a File option, writes what the
\* second call writes with freshly constructed options of the same
\* arguments.
C27_OptionsReusable ==
    Logged =>
        log(last.cmd, last.message, <<File(<<"a">>)>> \o opts).wrote
            = log(last.cmd, last.message, <<File(<<"a">>)>> \o last.args).wrote

\* C29: a Notice, Warning or Error with a non-empty message writes exactly
\* one line: it ends with one LF and holds no other CR or LF; the rendered
\* annotation holds no ':' and every ',' in it is followed by the key of a
\* field.
C29_OneProtocolLine ==
    Logged =>
        LET w == last.wrote
            a == last.annotation
        IN  /\ out = w
            /\ Len(w) > 0
            /\ w[Len(w)] = LF
            /\ \A i \in 1..(Len(w) - 1) : w[i] \notin {CR, LF}
            /\ \A i \in 1..Len(a) :
                /\ a[i] # ":"
                /\ a[i] = "," =>
                    \E k \in 1..Len(FieldOrder) :
                        IsPrefix(FieldOrder[k], SubSeq(a, i + 1, Len(a)))

\* a title and a file that hold ':', ',', CR, LF and '%' and a message that
\* holds LF have been written on one line, with one separating comma
C29_Witness ==
    /\ Logged
    /\ Len(last.args) = 2
    /\ last.ann.Title = Nasty
    /\ last.ann.File = Nasty
    /\ ContainsLF(last.message)
    /\ Cardinality({i \in 1..Len(last.annotation) : last.annotation[i] = ","}) = 1

\* the WithGroup calls that the step returns from (or a panic passes
\* through), innermost last
Left == SubSeq(grp.stack, Len(grp'.stack) + 1, Len(grp.stack))

\* C25: WithGroup with the empty title writes nothing itself: the step that
\* enters it and the step in which its fn returns leave the log as it was.
C25_EmptyTitleLogsNothing ==
    [][/\ grp'.stack = Append(grp.stack, <<>>) => out' = out
       /\ (Len(grp'.stack) < Len(grp.stack) /\ \A i \in 1..Len(Left) : Left[i] = <<>>)
            => out' = out]_vars

\* the nesting depth after the lines ls, starting at depth d; -1 when an
\* '::endgroup::' line stands where no group is open
RECURSIVE Nesting(_, _)
Nesting(ls, d) ==
    IF ls = <<>> THEN d
    ELSE IF IsPrefix(<<":",":","g","r","o","u","p",":",":">>, Head(ls)) THEN Nesting(Tail(ls), d + 1)
    ELSE IF Head(ls) = <<":",":","e","n","d","g","r","o","u","p",":",":">>
         THEN (IF d = 0 THEN 0 - 1 ELSE Nesting(Tail(ls), d - 1))
    ELSE Nesting(Tail(ls), d)

\* every WithGroup call made so far had a non-empty title
NamedGroups ==
    \A i \in 1..Len(grp.calls) :
        grp.calls[i].op = "WithGroup" => grp.calls[i].arg # <<>>

\* C26: WithGroup with a non-empty title writes '::group::' and the trimmed,
\* property-escaped title on entry, before fn runs; when fn returns or
\* panics, '::endgroup::' is written once for each WithGroup left; and after
\* any sequence of such calls every '::endgroup::' line closes an earlier
\* '::group::' line and the groups still open are the WithGroup calls still
\* running (none when all have finished).
C26_GroupsBalanced ==
    [][/\ \A title \in Titles \ {<<>>} :
            grp'.stack = Append(grp.stack, title)
                => out' = out \o <<":",":","g","r","o","u","p",":",":">> \o propertyEscaper(TrimSpace(title)) \o <<LF>>
       /\ (Len(grp'.stack) < Len(grp.stack) /\ \A i \in 1..Len(Left) : Left[i] # <<>>)
            => out' = out \o Times(Len(Left), <<":",":","e","n","d","g","r","o","u","p",":",":",LF>>)
       /\ NamedGroups' => Nesting(SplitLines(out'), 0) = Len(grp'.stack)]_vars

\* WithGroup(" a:") has run a fn that called WithGroup(" ") whose fn wrote a
\* debug message and panicked
C26_Witness ==
    /\ grp.panicked
    /\ grp.stack = <<>>
    /\ out = <<":",":","g","r","o","u","p",":",":","a","%","3","A",LF,":",":","g","r","o","u","p",":",":",LF,":",":","d","e","b","u","g",":",":","d","%","0","A",LF,":",":","e","n","d","g","r","o","u","p",":",":",LF,":",":","e","n","d","g","r","o","u","p",":",":",LF>>

\* the text after the final '::' of a line that is a workflow command
Payload(l) ==
    LET at == {i \in 3..(Len(l) - 1) : l[i] = ":" /\ l[i + 1] = ":"}
    IN  SubSeq(l, (CHOOSE i \in at : \A j \in at : j <= i) + 2, Len(l))

\* C28: StartGroup and Mask write nothing when their argument is empty or
\* whitespace only, Debug writes nothing for the empty format, and every
\* '::group::', '::add-mask::' and '::debug::' line in the log has a
\* non-empty text after the final '::'.
C28_NoEmptyPayload ==
    /\ \A i \in 1..Len(grp.calls) :
        LET c == grp.calls[i]
        IN  /\ (c.op \in {"StartGroup", "Mask"} /\ TrimSpace(c.arg) = <<>>) => c.wrote = <<>>
            /\ (c.op = "Debug" /\ c.arg = <<>>) => c.wrote = <<>>
    /\ LET ls == SplitLines(out)
       IN  \A i \in 1..Len(ls) :
            (\/ IsPrefix(<<":",":","g","r","o","u","p",":",":">>, ls[i])
             \/ IsPrefix(<<":",":","a","d","d","-","m","a","s","k",":",":">>, ls[i])
             \/ IsPrefix(<<":",":","d","e","b","u","g",":",":">>, ls[i]))
                => Payload(ls[i]) # <<>>

\* the paths of the goroutines in the order o, each followed by the
\* character sep
RECURSIVE Joined(_, _)
Joined(o, sep) ==
    IF o = <<>> THEN <<>>
    ELSE gor[Head(o)].path \o <<sep>> \o Joined(Tail(o), sep)

\* the orders in which the goroutines can have come
Orders == {o \in [Goroutines -> Goroutines] : \A g \in Goroutines : \E i \in Goroutines : o[i] = g}

\* C30: when the concurrent AddPath calls have all returned nil, $PATH holds
\* the path of every call in front of the original value, and the path-list
\* file holds the line of every call.
C30_NoLostUpdate ==
    (\A g \in Goroutines : gor[g].pc = "done" /\ gor[g].err = nil) =>
        /\ \E o \in Orders : environ[realPath] = Joined(o, PathListSeparator) \o <<"/","b","i","n">>
        /\ \E o \in Orders : files[PathPath] = Joined(o, LF)

====
